---- MODULE Spec2Model ----
(***************************************************************************)
(* State-machine model of MetaMaskService                                  *)
(* (src/src/app/metamask/metamask.service.ts) and of the older,            *)
(* non-reactive MetaMaskService kept in src/unnamed/part_000.              *)
(*                                                                         *)
(* The host runtime is single-threaded: every handler runs to its next     *)
(* await in one turn, so each action below is one such turn.               *)
(***************************************************************************)
EXTENDS Integers, Sequences, FiniteSets, TLC

(***************************************************************************)
(* Bounds of the model.                                                    *)
(***************************************************************************)
MaxLogins == 2
MaxSubmits == 1
MaxNetQueries == 2

(***************************************************************************)
(* Program constants.                                                      *)
(***************************************************************************)
MainnetChainId == 1
TestnetChainId == 3

Logins == 1..MaxLogins
Submits == 1..MaxSubmits

Undefined == "undefined"
\* account lists the wallet can report: none, one, several
AccountLists == {<<>>, <<"a">>, <<"b", "a">>}
Chains == {MainnetChainId, TestnetChainId}

VARIABLES
  installed,        \* window.ethereum is defined (isEthereumInstalled)
  wAccounts,        \* wallet: the accounts authorized for this origin, in order
  wChain,           \* wallet: the chain it is pointed at
  account,          \* _account
  network,          \* _network: <<>> (undefined) or <<chainId>>
  isAuthenticated,  \* _isAuthenticated
  accountSeen,      \* what the last _account$.next() showed a synchronous subscriber
  listReq,          \* the constructor's provider.listAccounts() promise
  netReq,           \* the pending provider.getNetwork() promises
  login,            \* the requestLogin invocations
  submit,           \* the requestSendTransaction invocations
  legacySend,       \* the sendTransaction invocation of the older service
  legacySign,       \* the signMessage invocation of the older service
  conv,             \* the amount conversion of a submission: argument and results
  listeners,        \* wallet: the number of handlers registered per event type
  provenSince,      \* history: a login succeeded after the last onAccountsChanged
  loggedOutOver     \* history, kept only where logouts are observed: the logins
                    \* that were in flight at a logout and have not been re-invoked

vars == <<installed, wAccounts, wChain, account, network, isAuthenticated,
          accountSeen, listReq, netReq, login, submit, legacySend, legacySign, conv, listeners,
          provenSince, loggedOutOver>>

(***************************************************************************)
(* SessionState: accessors and setters.                                    *)
(***************************************************************************)
\* get isConnected(): account !== undefined && account !== null
isConnected == account # Undefined

\* what a subscriber that _account$.next(a) calls synchronously reads from the
\* service: the new account, and the flag as it is at that moment
AccountEmission(a, auth) ==
  [account |-> a, isAuthenticated |-> auth, changed |-> a # account]

\* mutant: the last of several accounts is taken
NextAccountLast(accounts) ==
  IF Len(accounts) = 0 THEN Undefined ELSE accounts[Len(accounts)]

\* the account onAccountsChanged stores for an account list
NextAccount(accounts) ==
  IF Len(accounts) = 0 THEN Undefined ELSE accounts[1]

\* mutant: the flag survives an account change
onAccountsChangedKeepsFlag(accounts) ==
  /\ account' = NextAccount(accounts)
  /\ accountSeen' = AccountEmission(NextAccount(accounts), isAuthenticated)
  /\ provenSince' = FALSE
  /\ UNCHANGED isAuthenticated

\* onAccountsChanged(accounts): set account (which emits), then clear the flag
onAccountsChanged(accounts) ==
  /\ account' = NextAccount(accounts)
  /\ accountSeen' = AccountEmission(NextAccount(accounts), isAuthenticated)
  /\ isAuthenticated' = FALSE
  /\ provenSince' = FALSE

\* mutant: a network change is treated like an account change
SetNetworkResetsAuth(chainId) ==
  /\ network' = <<chainId>>
  /\ isAuthenticated' = FALSE
  /\ UNCHANGED <<account, accountSeen, provenSince>>

\* the network setter, run by the then-callbacks of getNetwork()
SetNetwork(chainId) ==
  /\ network' = <<chainId>>
  /\ UNCHANGED <<account, isAuthenticated, accountSeen, provenSince>>

\* number of getNetwork() promises not yet settled
NetPending == netReq.asked + netReq.got[MainnetChainId] + netReq.got[TestnetChainId]

\* onChainChanged(chainId): the argument is ignored, the network is re-queried
onChainChanged(chainId) ==
  /\ netReq' = [netReq EXCEPT !.asked = @ + 1]
  /\ UNCHANGED <<account, network, isAuthenticated, accountSeen, provenSince>>

(***************************************************************************)
(* Amount conversion.  Amounts exceed the machine integers of the checker, *)
(* so a natural number is the sequence of its decimal digits, most         *)
(* significant first, and a decimal string "w.f" is [whole |-> w, frac |-> f].*)
(***************************************************************************)
\* the exponent of parseEther and of Math.pow(10, 18)
Decimals == 18

Zeros(n) == [i \in 1..n |-> 0]

\* the digits without leading zeros; zero is <<0>>
Norm(d) ==
  LET nz == {i \in 1..Len(d) : d[i] # 0}
  IN  IF nz = {} THEN <<0>>
      ELSE SubSeq(d, CHOOSE i \in nz : \A j \in nz : i <= j, Len(d))

\* the digits without trailing zeros (of a fractional part)
TrimTrailing(f) ==
  LET nz == {i \in 1..Len(f) : f[i] # 0}
  IN  IF nz = {} THEN <<>>
      ELSE SubSeq(f, 1, CHOOSE i \in nz : \A j \in nz : j <= i)

\* a < b, for normalised digit sequences
Less(a, b) ==
  \/ Len(a) < Len(b)
  \/ /\ Len(a) = Len(b)
     /\ \E i \in 1..Len(a) : a[i] < b[i] /\ \A j \in 1..(i - 1) : a[j] = b[j]

IsOdd(d) == d[Len(d)] % 2 = 1

\* 2 * d: a digit doubles modulo 10 and takes the carry of the digit after it
Double(d) ==
  LET e == <<0>> \o d
  IN  Norm([i \in 1..Len(e) |->
              ((2 * e[i]) % 10) + (IF i < Len(e) /\ e[i + 1] >= 5 THEN 1 ELSE 0)])

\* d \div 2: a digit takes ten from an odd digit before it
Half(d) ==
  Norm([i \in 1..Len(d) |->
          ((IF i > 1 /\ d[i - 1] % 2 = 1 THEN 10 ELSE 0) + d[i]) \div 2])

\* d + 1: the last digit that is not 9 goes up, the nines after it to 0
Succ(d) ==
  LET e == <<0>> \o d
      k == CHOOSE i \in 1..Len(e) : e[i] # 9 /\ \A j \in (i + 1)..Len(e) : e[j] = 9
  IN  Norm([i \in 1..Len(e) |-> IF i < k THEN e[i] ELSE IF i = k THEN e[i] + 1 ELSE 0])

\* 2 * d + b for a bit b
DoubleBit(d, b) ==
  LET e == Double(d) IN [e EXCEPT ![Len(e)] = @ + b]

Times16(d) == Double(Double(Double(Double(d))))
Div16(d) == Half(Half(Half(Half(d))))
\* d % 16
Mod16(d) ==
  (IF IsOdd(d) THEN 1 ELSE 0) + (IF IsOdd(Half(d)) THEN 2 ELSE 0)
    + (IF IsOdd(Half(Half(d))) THEN 4 ELSE 0)
    + (IF IsOdd(Half(Half(Half(d)))) THEN 8 ELSE 0)

\* d * 2^n
RECURSIVE ShiftLeft(_, _)
ShiftLeft(d, n) == IF n = 0 THEN d ELSE ShiftLeft(Double(d), n - 1)

\* BigNumber.toHexString(), Number.toString(16): the hexadecimal digits
RECURSIVE ToHex(_)
ToHex(d) ==
  IF Less(d, <<1, 6>>) THEN <<Mod16(d)>>
  ELSE Append(ToHex(Div16(d)), Mod16(d))

\* 16 * d + x for a hexadecimal digit x
Times16Plus(d, x) ==
  DoubleBit(DoubleBit(DoubleBit(DoubleBit(d, x \div 8), (x \div 4) % 2),
                      (x \div 2) % 2), x % 2)

\* the number read so far (acc), then the hexadecimal digits h
RECURSIVE HexAcc(_, _)
HexAcc(h, acc) ==
  IF Len(h) = 0 THEN acc
  ELSE IF acc = <<0>> THEN HexAcc(Tail(h), Norm(<<Head(h) \div 10, Head(h) % 10>>))
  ELSE HexAcc(Tail(h), Times16Plus(acc, Head(h)))

\* the number the wallet reads from a hexadecimal quantity
HexValue(h) == HexAcc(h, <<0>>)

\* what a conversion hands to the wallet: nothing yet, a hexadecimal quantity,
\* a thrown error, or a string that is no integer (hex digits with a point)
NoValue == [kind |-> "none", digits |-> <<>>]
HexQuantity(d) == [kind |-> "hex", digits |-> ToHex(d)]
Thrown == [kind |-> "throws", digits |-> <<>>]
Fractional == [kind |-> "fraction", digits |-> <<>>]

\* ethers.utils.parseEther(amountETH).toHexString(): the fraction loses its
\* trailing zeros, must fit the 18 decimals and is padded to them; the result
\* is whole * 10^18 + fraction
parseEther(amount) ==
  LET fraction == TrimTrailing(amount.frac)
  IN  IF Len(fraction) > Decimals
        THEN Thrown
        ELSE HexQuantity(Norm(amount.whole \o fraction \o Zeros(Decimals - Len(fraction))))

\* a JavaScript number (IEEE 754 binary64) has a significand of 53 bits:
\* 2^52 and 2^53
TwoTo52 == <<4, 5, 0, 3, 5, 9, 9, 6, 2, 7, 3, 7, 0, 4, 9, 6>>
TwoTo53 == Double(TwoTo52)

\* the digits of d above its last f, and its last f digits
Floor10(d, f) == Norm(SubSeq(d, 1, Len(d) - f))
Rem10(d, f) == SubSeq(d, Len(d) - f + 1, Len(d))

\* the remainder r of f decimal digits rounds the quotient up (half to even)
RoundsUp10(r, qOdd) ==
  /\ Len(r) > 0
  /\ \/ r[1] > 5
     \/ /\ r[1] = 5
        /\ \/ \E i \in 2..Len(r) : r[i] # 0
           \/ qOdd

\* a * 2^t for the least t that brings a / 10^f up to 53 significant bits
RECURSIVE ScaleUp(_, _, _)
ScaleUp(a, f, t) ==
  IF ~Less(Floor10(a, f), TwoTo52) THEN [a |-> a, t |-> t]
  ELSE IF Less(Floor10(Times16(a), f), TwoTo52) THEN ScaleUp(Times16(a), f, t + 4)
  ELSE ScaleUp(Double(a), f, t + 1)

\* the JavaScript number nearest to the decimal amount, as m / 2^k with m of at
\* most 53 bits (for amounts below 2^52)
ToNumber(amount) ==
  LET f == Len(amount.frac)
      digits == Norm(amount.whole \o amount.frac)
  IN  IF digits = <<0>> THEN [m |-> <<0>>, k |-> 0]
      ELSE LET s == ScaleUp(digits, f, 0)
               q == Floor10(s.a, f)
           IN  [m |-> IF RoundsUp10(Rem10(s.a, f), IsOdd(q)) THEN Succ(q) ELSE q,
                k |-> s.t]

\* q halved until it has at most 53 bits, with the last bit dropped (guard),
\* whether any bit dropped before it was set (sticky), and the halvings s
RECURSIVE ShrinkTo53(_, _, _, _)
ShrinkTo53(q, guard, sticky, s) ==
  IF Less(q, TwoTo53) THEN [q |-> q, guard |-> guard, sticky |-> sticky, s |-> s]
  ELSE IF ~Less(Div16(q), TwoTo53)
    THEN ShrinkTo53(Div16(q), FALSE, sticky \/ guard \/ Mod16(q) # 0, s + 4)
  ELSE ShrinkTo53(Half(q), IsOdd(q), sticky \/ guard, s + 1)

\* line 154: amountETH * Math.pow(10, 18) in binary64 arithmetic, as m * 2^e
amountWEIDec(number) ==
  LET r == ShrinkTo53(number.m \o Zeros(Decimals), FALSE, FALSE, 0)
  IN  IF number.m = <<0>> THEN [m |-> <<0>>, e |-> 0]
      ELSE [m |-> IF r.guard /\ (r.sticky \/ IsOdd(r.q)) THEN Succ(r.q) ELSE r.q,
            e |-> r.s - number.k]

\* d / 2^n when that is a whole number
RECURSIVE ShiftRightExact(_, _)
ShiftRightExact(d, n) ==
  IF n = 0 THEN [whole |-> TRUE, d |-> d]
  ELSE IF IsOdd(d) THEN [whole |-> FALSE, d |-> d]
  ELSE ShiftRightExact(Half(d), n - 1)

\* line 155: amountWEIDec.toString(16)
amountWEIHex(dec) ==
  IF dec.e >= 0 THEN HexQuantity(ShiftLeft(dec.m, dec.e))
  ELSE LET r == ShiftRightExact(dec.m, 0 - dec.e)
       IN  IF r.whole THEN HexQuantity(r.d) ELSE Fractional

IdleConv ==
  [pc |-> "Idle", amount |-> [whole |-> <<0>>, frac |-> <<>>],
   value |-> NoValue, legacyValue |-> NoValue]

IdleLegacySign ==
  [pc |-> "Idle", sigBy |-> Undefined, address |-> Undefined, out |-> Undefined,
   caught |-> Undefined, calls |-> <<>>]

(***************************************************************************)
(* The state after construction: both listeners are registered and the two *)
(* initial queries (listAccounts, getNetwork) are in flight.  Without a    *)
(* wallet the constructor does nothing.                                    *)
(***************************************************************************)
IdleLogin ==
  [pc |-> "Idle", nonce |-> 0, sigOver |-> 0, sigBy |-> Undefined,
   address |-> Undefined, res |-> Undefined, out |-> Undefined, calls |-> <<>>,
   raced |-> FALSE]

IdleSubmit ==
  [pc |-> "Idle", isProd |-> FALSE, networkVersion |-> <<>>, out |-> Undefined,
   calls |-> <<>>]

IdleLegacySend ==
  [pc |-> "Idle", isProd |-> FALSE, networkVersion |-> <<>>, out |-> Undefined,
   caught |-> Undefined, calls |-> <<>>]

\* mutant: the chainChanged registration is left out
RegisteredListenersAccountsOnly ==
  [accountsChanged |-> IF installed THEN 1 ELSE 0, chainChanged |-> 0]

\* the registrations the constructor makes with ethereum.on: one per event
\* type when a wallet is present, none otherwise
RegisteredListeners ==
  [accountsChanged |-> IF installed THEN 1 ELSE 0,
   chainChanged |-> IF installed THEN 1 ELSE 0]

Init ==
  /\ installed \in BOOLEAN
  /\ wAccounts \in AccountLists
  /\ wChain \in Chains
  /\ account = Undefined
  /\ network = <<>>
  /\ isAuthenticated = FALSE
  /\ accountSeen = [account |-> Undefined, isAuthenticated |-> FALSE, changed |-> FALSE]
  /\ listReq = IF installed THEN <<"asked">> ELSE <<"none">>
  /\ netReq = [asked |-> IF installed THEN 1 ELSE 0,
               got |-> [c \in Chains |-> 0]]
  /\ login = [l \in Logins |-> IdleLogin]
  /\ submit = [s \in Submits |-> IdleSubmit]
  /\ legacySend = IdleLegacySend
  /\ legacySign = IdleLegacySign
  /\ conv = IdleConv
  /\ listeners = RegisteredListeners
  /\ provenSince = FALSE
  /\ loggedOutOver = {}

(***************************************************************************)
(* Wallet events and the responses to the service's queries.               *)
(***************************************************************************)
\* the wallet switches or (de)authorizes accounts and emits accountsChanged to
\* the registered handler
AccountsChangedEvent(accounts) ==
  /\ installed
  /\ accounts # wAccounts
  /\ wAccounts' = accounts
  /\ IF listeners.accountsChanged > 0
       THEN onAccountsChanged(accounts)
       ELSE UNCHANGED <<account, isAuthenticated, accountSeen, provenSince>>
  /\ UNCHANGED <<installed, wChain, network, listReq, netReq, login, submit, legacySend, legacySign, conv, listeners, loggedOutOver>>

\* the wallet answers the constructor's listAccounts() query
ListAccountsAnswered ==
  /\ listReq = <<"asked">>
  /\ listReq' = <<"got", wAccounts>>
  /\ UNCHANGED <<installed, wAccounts, wChain, account, network, isAuthenticated,
                 accountSeen, netReq, login, submit, legacySend, legacySign, conv, listeners, loggedOutOver, provenSince>>

\* .then((accounts) => this.onAccountsChanged(accounts))
ListAccountsDelivered ==
  /\ listReq[1] = "got"
  /\ listReq' = <<"done">>
  /\ onAccountsChanged(listReq[2])
  /\ UNCHANGED <<installed, wAccounts, wChain, network, netReq, login, submit, legacySend, legacySign, conv, listeners, loggedOutOver>>

\* the wallet switches chain and emits chainChanged to the registered handler
ChainChangedEvent(chainId) ==
  /\ installed
  /\ chainId # wChain
  /\ NetPending < MaxNetQueries
  /\ wChain' = chainId
  /\ IF listeners.chainChanged > 0
       THEN onChainChanged(chainId)
       ELSE UNCHANGED <<netReq, account, network, isAuthenticated, accountSeen,
                        provenSince>>
  /\ UNCHANGED <<installed, wAccounts, listReq, login, submit, legacySend, legacySign, conv, listeners, loggedOutOver>>

\* the wallet answers one getNetwork() query with the chain it is on
NetworkAnswered ==
  /\ netReq.asked > 0
  /\ netReq' = [asked |-> netReq.asked - 1,
                got |-> [netReq.got EXCEPT ![wChain] = @ + 1]]
  /\ UNCHANGED <<installed, wAccounts, wChain, account, network, isAuthenticated,
                 accountSeen, listReq, login, submit, legacySend, legacySign, conv, listeners, loggedOutOver, provenSince>>

\* .then((network) => (this.network = network))
NetworkDelivered(chainId) ==
  /\ netReq.got[chainId] > 0
  /\ netReq' = [netReq EXCEPT !.got[chainId] = @ - 1]
  /\ SetNetwork(chainId)
  /\ UNCHANGED <<installed, wAccounts, wChain, listReq, login, submit, legacySend, legacySign, conv, listeners, loggedOutOver>>

(***************************************************************************)
(* AuthenticationFlow: requestLogin, one action per turn between awaits.   *)
(***************************************************************************)
InFlight == {"Requesting", "AwaitNonce", "Signing", "Addressing", "Verifying"}
Terminal == {"Authenticated", "Failed"}

\* what neither requestLogin nor logout touches
AuthFrame ==
  UNCHANGED <<installed, wAccounts, wChain, account, network, accountSeen,
              listReq, netReq, submit, legacySend, legacySign, conv, listeners>>

\* requestAccount(): provider?.send("eth_requestAccounts", []) -- no wallet, no call
RequestAccountCalls == IF installed THEN <<"requestAccounts">> ELSE <<>>

\* throw: the invocation rejects with `reason` and writes nothing else
LoginFails(l, reason) ==
  /\ login' = [login EXCEPT ![l] =
       [IdleLogin EXCEPT !.pc = "Failed", !.out = reason, !.calls = login[l].calls]]
  /\ UNCHANGED <<isAuthenticated, provenSince>>

\* mutant: the flag is not cleared on entry
LoginEnterKeepsFlag(l) ==
  /\ login[l].pc \in {"Idle"} \cup Terminal
  /\ login' = [login EXCEPT ![l] =
                 [IdleLogin EXCEPT !.pc = "Requesting", !.calls = RequestAccountCalls]]
  /\ UNCHANGED <<isAuthenticated, provenSince>>
  /\ AuthFrame

\* requestLogin up to its first await: clear the flag, then getSigner()
LoginEnter(l) ==
  /\ login[l].pc \in {"Idle"} \cup Terminal
  /\ isAuthenticated' = FALSE
  /\ login' = [login EXCEPT ![l] =
                 [IdleLogin EXCEPT !.pc = "Requesting", !.calls = RequestAccountCalls]]
  /\ UNCHANGED provenSince
  /\ AuthFrame

\* getSigner() resolves (the accounts are authorized, or there is no provider):
\* generateNonce() is called
LoginAccountsGranted(l) ==
  /\ login[l].pc = "Requesting"
  /\ installed => Len(wAccounts) > 0
  /\ login' = [login EXCEPT ![l].pc = "AwaitNonce",
                            ![l].calls = Append(@, "generateNonce")]
  /\ UNCHANGED <<isAuthenticated, provenSince>>
  /\ AuthFrame

\* eth_requestAccounts is rejected (the user declines the consent prompt)
LoginAccountsRejected(l) ==
  /\ login[l].pc = "Requesting"
  /\ installed
  /\ LoginFails(l, "UserRejected")
  /\ AuthFrame

\* the bodies generateNonce can deliver: {} and {nonce: n}
NonceResponses(l) == {<<>>, <<l>>}

\* res.nonce, 0 standing for undefined
NonceOf(res) == IF Len(res) = 0 THEN 0 ELSE res[1]

\* mutant: the nonce is not checked before it is signed
LoginNonceReturnedUnchecked(l, res) ==
  /\ login[l].pc = "AwaitNonce"
  /\ installed
  /\ login' = [login EXCEPT ![l].pc = "Signing",
                            ![l].nonce = NonceOf(res),
                            ![l].calls = Append(@, "signMessage")]
  /\ UNCHANGED <<isAuthenticated, provenSince>>
  /\ AuthFrame

\* the generateNonce response arrives: lines 176-183
LoginNonceReturned(l, res) ==
  /\ login[l].pc = "AwaitNonce"
  /\ IF NonceOf(res) = 0
       THEN LoginFails(l, "NonceMissing")
       ELSE IF ~installed
         \* signer is undefined: signature is undefined
         THEN /\ login' = [login EXCEPT ![l] =
                   [IdleLogin EXCEPT !.pc = "Failed", !.out = "SigningRejected",
                                     !.nonce = NonceOf(res), !.calls = login[l].calls]]
              /\ UNCHANGED <<isAuthenticated, provenSince>>
         ELSE /\ login' = [login EXCEPT ![l].pc = "Signing",
                                        ![l].nonce = NonceOf(res),
                                        ![l].calls = Append(@, "signMessage")]
              /\ UNCHANGED <<isAuthenticated, provenSince>>
  /\ AuthFrame

\* the HTTP request of generateNonce or verifyMessage fails: toPromise() rejects
LoginBackendError(l) ==
  /\ login[l].pc \in {"AwaitNonce", "Verifying"}
  /\ LoginFails(l, "BackendError")
  /\ AuthFrame

\* mutant: the wallet's signature is trusted without the backend
LoginSignedTrusted(l) ==
  /\ login[l].pc = "Signing"
  /\ Len(wAccounts) > 0
  /\ login' = [login EXCEPT ![l].pc = "Addressing",
                            ![l].sigOver = login[l].nonce,
                            ![l].sigBy = wAccounts[1],
                            ![l].calls = Append(@, "getAddress")]
  /\ isAuthenticated' = TRUE
  /\ UNCHANGED provenSince
  /\ AuthFrame

\* signer.signMessage(nonce) resolves: the wallet's active account signed the
\* nonce; signer.getAddress() is called
LoginSigned(l) ==
  /\ login[l].pc = "Signing"
  /\ Len(wAccounts) > 0
  /\ login' = [login EXCEPT ![l].pc = "Addressing",
                            ![l].sigOver = login[l].nonce,
                            ![l].sigBy = wAccounts[1],
                            ![l].calls = Append(@, "getAddress")]
  /\ UNCHANGED <<isAuthenticated, provenSince>>
  /\ AuthFrame

\* mutant: a rejected signature is retried with a fresh nonce
LoginSignRejectedRetries(l) ==
  /\ login[l].pc = "Signing"
  /\ login' = [login EXCEPT ![l].pc = "AwaitNonce", ![l].nonce = 0,
                            ![l].calls = RequestAccountCalls \o <<"generateNonce">>]
  /\ UNCHANGED <<isAuthenticated, provenSince>>
  /\ AuthFrame

\* signer.signMessage(nonce) rejects
LoginSignRejected(l) ==
  /\ login[l].pc = "Signing"
  /\ LoginFails(l, "SigningRejected")
  /\ AuthFrame

\* signer.getAddress() settles: account #0 of the wallet, or a rejection when
\* there is none; then verifyMessage(nonce, address, signature) is called
LoginAddressReturned(l) ==
  /\ login[l].pc = "Addressing"
  /\ IF Len(wAccounts) = 0
       THEN LoginFails(l, "AddressUnavailable")
       ELSE /\ login' = [login EXCEPT ![l].pc = "Verifying",
                                      ![l].address = wAccounts[1],
                                      ![l].calls = Append(@, "verifyMessage")]
            /\ UNCHANGED <<isAuthenticated, provenSince>>
  /\ AuthFrame

\* the bodies verifyMessage can deliver: {valid: true}, {valid: false}, {}.
\* The backend answers valid only for a signature made by `address`.
VerifyResponses(l) ==
  {"false", "absent"} \cup
    (IF login[l].sigBy = login[l].address THEN {"true"} ELSE {})

\* mutant: res.valid !== false
ResValidLoose(res) == res # "false"

\* res.valid === true
ResValid(res) == res = "true"

\* the other invocations in flight learn that a login succeeded meanwhile
NoteSuccess(l, res) ==
  [k \in Logins |->
     IF k = l
       THEN [login[k] EXCEPT !.pc = "Authenticated", !.out = account,
                             !.res = res, !.raced = FALSE]
       ELSE IF login[k].pc \in InFlight
              THEN [login[k] EXCEPT !.raced = TRUE]
              ELSE login[k]]

\* the verify response arrives: lines 192-199
LoginVerified(l, res) ==
  /\ login[l].pc = "Verifying"
  /\ IF ResValid(res)
       THEN /\ isAuthenticated' = TRUE
            /\ provenSince' = TRUE
            /\ login' = NoteSuccess(l, res)
       ELSE /\ login' = [login EXCEPT ![l] =
                 [IdleLogin EXCEPT !.pc = "Failed", !.out = "SignatureInvalid",
                                   !.res = res, !.calls = login[l].calls]]
            /\ UNCHANGED <<isAuthenticated, provenSince>>
  /\ AuthFrame

\* mutant: logout also drops the account
LogoutDisconnects ==
  /\ isAuthenticated' = FALSE
  /\ account' = Undefined
  /\ UNCHANGED <<installed, wAccounts, wChain, network, accountSeen, listReq, netReq,
                 login, submit, legacySend, legacySign, conv, listeners, provenSince>>

\* logout(): runs to completion in the calling turn
logout ==
  /\ isAuthenticated' = FALSE
  /\ UNCHANGED <<login, provenSince>>
  /\ AuthFrame

(***************************************************************************)
(* TransactionGuard: requestSendTransaction and checkTransactionConfirmation.*)
(***************************************************************************)
SubmitEnded == {"Failed", "Submitted", "Unknown", "Confirmed"}

\* what requestSendTransaction and checkTransactionConfirmation leave alone
SubmitFrame ==
  UNCHANGED <<installed, wAccounts, wChain, account, network, isAuthenticated,
              accountSeen, listReq, netReq, login, legacySend, legacySign, conv, listeners, loggedOutOver, provenSince>>

\* lines 214-221: networkVersion = this.network?.chainId, compared with 1
WrongNetwork(isProd, net) ==
  \/ isProd /\ net # <<MainnetChainId>>
  \/ ~isProd /\ net = <<MainnetChainId>>

\* requestSendTransaction up to its first await: the guard, then getSigner()
SubmitEnter(s, isProd) ==
  /\ submit[s].pc \in {"Idle"} \cup SubmitEnded
  /\ submit' = [submit EXCEPT ![s] =
       IF WrongNetwork(isProd, network)
         THEN [IdleSubmit EXCEPT !.pc = "Failed", !.isProd = isProd,
                                 !.networkVersion = network,
                                 !.out = "WrongNetwork"]
         ELSE [IdleSubmit EXCEPT !.pc = "Requesting", !.isProd = isProd,
                                 !.networkVersion = network,
                                 !.calls = RequestAccountCalls]]
  /\ SubmitFrame

\* getSigner() resolves: signer?.sendTransaction(...) is called; without a
\* provider the signer and so tx are undefined
SubmitAccountsGranted(s) ==
  /\ submit[s].pc = "Requesting"
  /\ installed => Len(wAccounts) > 0
  /\ submit' = [submit EXCEPT ![s] =
       IF installed
         THEN [@ EXCEPT !.pc = "Sending", !.calls = Append(@, "sendTransaction")]
         ELSE [@ EXCEPT !.pc = "Failed", !.out = "SubmissionFailed"]]
  /\ SubmitFrame

\* eth_requestAccounts is rejected
SubmitAccountsRejected(s) ==
  /\ submit[s].pc = "Requesting"
  /\ installed
  /\ submit' = [submit EXCEPT ![s].pc = "Failed", ![s].out = "UserRejected"]
  /\ SubmitFrame

\* the wallet returns the transaction: return tx.hash
SubmitSent(s) ==
  /\ submit[s].pc = "Sending"
  /\ submit' = [submit EXCEPT ![s].pc = "Submitted", ![s].out = "hash"]
  /\ SubmitFrame

\* the wallet rejects the transaction (declined, or insufficient funds)
SubmitSendRejected(s, reason) ==
  /\ submit[s].pc = "Sending"
  /\ submit' = [submit EXCEPT ![s].pc = "Failed", ![s].out = reason]
  /\ SubmitFrame

\* checkTransactionConfirmation(hash): one getTransactionReceipt lookup
CheckConfirmation(s) ==
  /\ submit[s].pc \in {"Submitted", "Unknown"}
  /\ installed
  /\ submit' = [submit EXCEPT ![s].pc = "Checking"]
  /\ SubmitFrame

\* the lookup returns a receipt or null
ReceiptReturned(s, present) ==
  /\ submit[s].pc = "Checking"
  /\ submit' = [submit EXCEPT ![s].pc = IF present THEN "Confirmed" ELSE "Unknown"]
  /\ SubmitFrame

(***************************************************************************)
(* The older MetaMaskService (src/unnamed/part_000): sendTransaction reads  *)
(* window.ethereum.networkVersion itself and wraps its whole body in a      *)
(* try/catch that logs and returns undefined.  It registers no listeners.   *)
(***************************************************************************)
LegacyFrame ==
  UNCHANGED <<installed, account, network, isAuthenticated, accountSeen,
              listReq, netReq, login, submit, conv, listeners, loggedOutOver, provenSince>>

\* lines 144-152: networkVersion != 1 and networkVersion == 1 (loose equality,
\* so the wallet's "1" counts as 1)
LegacyWrongNetwork(isProd, net) ==
  \/ isProd /\ net # <<MainnetChainId>>
  \/ ~isProd /\ net = <<MainnetChainId>>

\* catch (err) { console.log(...) }: the call resolves to undefined
LegacyCaught(rec, err) ==
  [rec EXCEPT !.pc = "Resolved", !.out = Undefined, !.caught = err]

\* sendTransaction up to its await of eth_sendTransaction
LegacySendEnter(isProd) ==
  /\ legacySend.pc \in {"Idle", "Resolved"}
  /\ legacySend' =
       IF ~installed
         \* window.ethereum is undefined: reading networkVersion throws
         THEN LegacyCaught([IdleLegacySend EXCEPT !.isProd = isProd], "WalletUnavailable")
         ELSE IF LegacyWrongNetwork(isProd, <<wChain>>)
           THEN LegacyCaught([IdleLegacySend EXCEPT !.isProd = isProd,
                                                    !.networkVersion = <<wChain>>],
                             "WrongNetwork")
           ELSE [IdleLegacySend EXCEPT !.pc = "Sending", !.isProd = isProd,
                                       !.networkVersion = <<wChain>>,
                                       !.calls = <<"sendTransaction">>]
  /\ UNCHANGED <<wChain, wAccounts, legacySign>>
  /\ LegacyFrame

\* eth_sendTransaction resolves: return txHash
LegacySendReturned ==
  /\ legacySend.pc = "Sending"
  /\ legacySend' = [legacySend EXCEPT !.pc = "Resolved", !.out = "hash"]
  /\ UNCHANGED <<wChain, wAccounts, legacySign>>
  /\ LegacyFrame

\* eth_sendTransaction rejects: caught
LegacySendRejected(reason) ==
  /\ legacySend.pc = "Sending"
  /\ legacySend' = LegacyCaught(legacySend, reason)
  /\ UNCHANGED <<wChain, wAccounts, legacySign>>
  /\ LegacyFrame

\* the wallet switches chain; the older service has no chainChanged listener
LegacyChainChanged(chainId) ==
  /\ installed
  /\ chainId # wChain
  /\ wChain' = chainId
  /\ UNCHANGED <<wAccounts, legacySend, legacySign>>
  /\ LegacyFrame

\* the wallet switches accounts; the older service has no accountsChanged listener
LegacyAccountsChanged(accounts) ==
  /\ installed
  /\ accounts # wAccounts
  /\ wAccounts' = accounts
  /\ UNCHANGED <<wChain, legacySend, legacySign>>
  /\ LegacyFrame

\* signMessage up to its await of eth_requestAccounts
LegacySignEnter ==
  /\ legacySign.pc \in {"Idle", "Resolved"}
  /\ legacySign' =
       IF ~installed
         \* window.ethereum is undefined: .request throws
         THEN LegacyCaught(IdleLegacySign, "WalletUnavailable")
         ELSE [IdleLegacySign EXCEPT !.pc = "Requesting",
                                     !.calls = <<"requestAccounts">>]
  /\ UNCHANGED <<wChain, wAccounts, legacySend>>
  /\ LegacyFrame

\* eth_requestAccounts resolves: signer.signMessage(message) is called
LegacySignGranted ==
  /\ legacySign.pc = "Requesting"
  /\ Len(wAccounts) > 0
  /\ legacySign' = [legacySign EXCEPT !.pc = "Signing",
                                      !.calls = Append(@, "signMessage")]
  /\ UNCHANGED <<wChain, wAccounts, legacySend>>
  /\ LegacyFrame

\* signer.signMessage resolves: signer.getAddress() is called
LegacySigned ==
  /\ legacySign.pc = "Signing"
  /\ Len(wAccounts) > 0
  /\ legacySign' = [legacySign EXCEPT !.pc = "Addressing", !.sigBy = wAccounts[1],
                                      !.calls = Append(@, "getAddress")]
  /\ UNCHANGED <<wChain, wAccounts, legacySend>>
  /\ LegacyFrame

\* signer.getAddress() settles: return {signature, address}, or caught
LegacyAddressReturned ==
  /\ legacySign.pc = "Addressing"
  /\ legacySign' =
       IF Len(wAccounts) = 0
         THEN LegacyCaught([legacySign EXCEPT !.sigBy = Undefined], "AddressUnavailable")
         ELSE [legacySign EXCEPT !.pc = "Resolved", !.address = wAccounts[1],
                                 !.out = "signed"]
  /\ UNCHANGED <<wChain, wAccounts, legacySend>>
  /\ LegacyFrame

\* eth_requestAccounts or signMessage rejects: caught, return null
LegacySignRejected ==
  /\ legacySign.pc \in {"Requesting", "Signing"}
  /\ legacySign' = LegacyCaught(legacySign,
        IF legacySign.pc = "Requesting" THEN "UserRejected" ELSE "SigningRejected")
  /\ UNCHANGED <<wChain, wAccounts, legacySend>>
  /\ LegacyFrame

LegacyNext ==
  \/ LegacySignEnter
  \/ LegacySignGranted
  \/ LegacySigned
  \/ LegacyAddressReturned
  \/ LegacySignRejected
  \/ \E isProd \in BOOLEAN : LegacySendEnter(isProd)
  \/ LegacySendReturned
  \/ \E r \in {"UserRejected", "InsufficientFunds"} : LegacySendRejected(r)
  \/ \E c \in Chains : LegacyChainChanged(c)
  \/ \E accounts \in AccountLists : LegacyAccountsChanged(accounts)

LegacySpec == Init /\ [][LegacyNext]_vars

(***************************************************************************)
(* The value handed to the wallet for an amount, by requestSendTransaction *)
(* and by sendTransaction of the older service.                            *)
(***************************************************************************)
\* the largest whole part of the amounts tried
MaxWholeETH == 2

AmountWholes == {<<n>> : n \in 0..MaxWholeETH}

\* fractional parts: none, one digit at each of the 18 places, digits at both
\* ends, a trailing zero, and one place too many
AmountFracs ==
  {<<>>, <<5, 0>>, <<1>> \o Zeros(Decimals - 2) \o <<1>>, Zeros(Decimals) \o <<1>>}
    \cup {Zeros(i) \o <<d>> : i \in 0..(Decimals - 1), d \in {1, 5}}

Amounts == {[whole |-> w, frac |-> f] : w \in AmountWholes, f \in AmountFracs}

ConvFrame ==
  UNCHANGED <<installed, wAccounts, wChain, account, network, isAuthenticated,
              accountSeen, listReq, netReq, login, submit, legacySend, legacySign,
              listeners, loggedOutOver, provenSince>>

\* a caller asks for a transfer of `amount`
ConvertEnter(amount) ==
  /\ \/ conv.pc = "Idle"
     \/ conv.value # NoValue /\ conv.legacyValue # NoValue
  /\ conv' = [IdleConv EXCEPT !.pc = "Given", !.amount = amount]
  /\ ConvFrame

\* line 226: value: ethers.utils.parseEther(amountETH).toHexString()
ServiceConverts ==
  /\ conv.pc = "Given"
  /\ conv.value = NoValue
  /\ conv' = [conv EXCEPT !.value = parseEther(conv.amount)]
  /\ ConvFrame

\* lines 154-155 of the older service, for the number the amount parses to
LegacyConverts ==
  /\ conv.pc = "Given"
  /\ conv.legacyValue = NoValue
  /\ conv' = [conv EXCEPT !.legacyValue = amountWEIHex(amountWEIDec(ToNumber(conv.amount)))]
  /\ ConvFrame

ConvNext ==
  \/ \E amount \in Amounts : ConvertEnter(amount)
  \/ ServiceConverts
  \/ LegacyConverts

\* the conversions need no wallet state: one initial state is enough
ConvInit == Init /\ installed /\ wAccounts = <<"a">> /\ wChain = TestnetChainId

ConvSpec == ConvInit /\ [][ConvNext]_vars

(***************************************************************************)
(* The service as a whole.                                                 *)
(***************************************************************************)
\* the wallet's events and the answers to the constructor's and the chain
\* handler's queries
SessionNext ==
  \/ \E accounts \in AccountLists : AccountsChangedEvent(accounts)
  \/ ListAccountsAnswered
  \/ ListAccountsDelivered
  \/ \E c \in Chains : ChainChangedEvent(c)
  \/ NetworkAnswered
  \/ \E c \in Chains : NetworkDelivered(c)

\* the history of logouts is not kept
Unobserved == UNCHANGED loggedOutOver

\* the login invocations of the set L, and logout
LoginNext(L) ==
  \/ \E l \in L : LoginEnter(l) /\ Unobserved
  \/ \E l \in L : LoginAccountsGranted(l) /\ Unobserved
  \/ \E l \in L : LoginAccountsRejected(l) /\ Unobserved
  \/ \E l \in L : \E res \in NonceResponses(l) : LoginNonceReturned(l, res) /\ Unobserved
  \/ \E l \in L : LoginBackendError(l) /\ Unobserved
  \/ \E l \in L : LoginSigned(l) /\ Unobserved
  \/ \E l \in L : LoginSignRejected(l) /\ Unobserved
  \/ \E l \in L : LoginAddressReturned(l) /\ Unobserved
  \/ \E l \in L : \E res \in VerifyResponses(l) : LoginVerified(l, res) /\ Unobserved
  \/ logout /\ Unobserved

\* the same with the history of logouts kept: a logout notes the invocations
\* in flight, a new invocation of requestLogin is not one of them
ObservedLoginNext(L) ==
  \/ \E l \in L : LoginEnter(l) /\ loggedOutOver' = loggedOutOver \ {l}
  \/ \E l \in L : LoginAccountsGranted(l) /\ Unobserved
  \/ \E l \in L : LoginAccountsRejected(l) /\ Unobserved
  \/ \E l \in L : \E res \in NonceResponses(l) : LoginNonceReturned(l, res) /\ Unobserved
  \/ \E l \in L : LoginBackendError(l) /\ Unobserved
  \/ \E l \in L : LoginSigned(l) /\ Unobserved
  \/ \E l \in L : LoginSignRejected(l) /\ Unobserved
  \/ \E l \in L : LoginAddressReturned(l) /\ Unobserved
  \/ \E l \in L : \E res \in VerifyResponses(l) : LoginVerified(l, res) /\ Unobserved
  \/ logout /\ loggedOutOver' = loggedOutOver \cup {l \in Logins : login[l].pc \in InFlight}

SubmitNext ==
  \/ \E s \in Submits : \E isProd \in BOOLEAN : SubmitEnter(s, isProd)
  \/ \E s \in Submits : SubmitAccountsGranted(s)
  \/ \E s \in Submits : SubmitAccountsRejected(s)
  \/ \E s \in Submits : SubmitSent(s)
  \/ \E s \in Submits : \E r \in {"UserRejected", "InsufficientFunds"} :
        SubmitSendRejected(s, r)
  \/ \E s \in Submits : CheckConfirmation(s)
  \/ \E s \in Submits : \E present \in BOOLEAN : ReceiptReturned(s, present)

\* every operation of the service, for a caller that keeps one login outstanding
Next == SessionNext \/ LoginNext({1}) \/ SubmitNext

Spec == Init /\ [][Next]_vars

\* authentication: overlapping login invocations, logout and account changes
AuthNext ==
  \/ \E accounts \in AccountLists : AccountsChangedEvent(accounts)
  \/ ListAccountsAnswered
  \/ ListAccountsDelivered
  \/ LoginNext(Logins)

\* no step of AuthNext reads or writes the chain: one initial chain is enough
AuthInit == Init /\ wChain = MainnetChainId

AuthSpec == AuthInit /\ [][AuthNext]_vars

\* the wallet or the backend settles the call that invocation l of
\* requestLogin awaits, and the invocation runs to its next await or to its end
LoginReturns(l) ==
  /\ \/ LoginAccountsGranted(l)
     \/ LoginAccountsRejected(l)
     \/ \E res \in NonceResponses(l) : LoginNonceReturned(l, res)
     \/ LoginBackendError(l)
     \/ LoginSigned(l)
     \/ LoginSignRejected(l)
     \/ LoginAddressReturned(l)
     \/ \E res \in VerifyResponses(l) : LoginVerified(l, res)
  /\ Unobserved

\* every call a login awaits eventually returns: no await of requestLogin
\* stays pending forever
LoginCallsReturn == \A l \in Logins : WF_vars(LoginReturns(l))

\* authentication when every wallet and backend call eventually returns
AuthLiveSpec == AuthInit /\ [][AuthNext]_vars /\ LoginCallsReturn

\* authentication with the logouts observed
LogoutNext ==
  \/ \E accounts \in AccountLists : AccountsChangedEvent(accounts)
  \/ ListAccountsAnswered
  \/ ListAccountsDelivered
  \/ ObservedLoginNext(Logins)

LogoutSpec == AuthInit /\ [][LogoutNext]_vars

\* the session under wallet events of both kinds, with one login and logout
SessionLoginNext == SessionNext \/ LoginNext({1})

SessionLoginSpec == Init /\ [][SessionLoginNext]_vars

\* transactions: submits, confirmations and every wallet event
TxNext == SessionNext \/ SubmitNext

TxSpec == Init /\ [][TxNext]_vars

(***************************************************************************)
(* State functions used by the properties.                                 *)
(***************************************************************************)
\* the operations of the service that are awaiting a wallet or backend answer
PendingOps ==
  [logins  |-> {l \in Logins : login[l].pc \in InFlight},
   submits |-> {s \in Submits : submit[s].pc \in {"Requesting", "Sending", "Checking"}},
   list    |-> listReq,
   net     |-> netReq]

\* every wallet and backend call issued by the invocations on record
CallsIssued ==
  [logins |-> [l \in Logins |-> login[l].calls],
   submits |-> [s \in Submits |-> submit[s].calls]]

\* `name` occurs in the sequence of calls
Called(calls, name) == \E i \in 1..Len(calls) : calls[i] = name

(***************************************************************************)
(* Properties.                                                             *)
(***************************************************************************)

\* C1: after every handled accountsChanged event isAuthenticated is false, and
\* it is true only when some login has completed successfully after the most
\* recent accountsChanged event.
C1_AuthOnlyAfterLoginSinceAccountChange ==
  isAuthenticated => provenSince

\* C1 witness: a login had succeeded, then an accountsChanged event was handled.
C1_Witness ==
  \E l \in Logins :
    /\ login[l].pc = "Authenticated"
    /\ ~provenSince
    /\ ~isAuthenticated

\* C2: isAuthenticated is false initially and goes from false to true only in
\* the step in which a login leaves Verifying with a verify response valid =
\* true; that login resolves to the account current at that moment.
C2_AuthSetOnlyByVerifiedLogin ==
  /\ ~isAuthenticated
  /\ [][(~isAuthenticated /\ isAuthenticated') =>
          \E l \in Logins :
            /\ login[l].pc = "Verifying"
            /\ login'[l].pc = "Authenticated"
            /\ login'[l].res = "true"
            /\ login'[l].out = account']_vars

\* C2 witness: a login has resolved to the current account and the flag is set,
\* while a submit and a network query are under way.
C2_Witness ==
  /\ isAuthenticated
  /\ login[1].pc = "Authenticated"
  /\ login[1].res = "true"
  /\ login[1].out = account
  /\ submit[1].pc = "Sending"
  /\ netReq.asked > 0

\* the network-class mismatch of C3, in the claim's words
C3_Mismatch(isProd, networkVersion) ==
  IF isProd THEN networkVersion # <<MainnetChainId>>
            ELSE networkVersion = <<MainnetChainId>>

\* C3 for requestSendTransaction of the reactive service
C3_ServiceRefuses ==
  \A s \in Submits :
    (submit[s].pc # "Idle" /\ C3_Mismatch(submit[s].isProd, submit[s].networkVersion))
      => /\ submit[s].pc = "Failed"
         /\ submit[s].out = "WrongNetwork"
         /\ submit[s].calls = <<>>

\* C3 for sendTransaction of the older service
C3_LegacyRefuses ==
  (/\ legacySend.pc # "Idle"
   /\ installed
   /\ C3_Mismatch(legacySend.isProd, legacySend.networkVersion))
    => /\ legacySend.pc = "Failed"
       /\ legacySend.out = "WrongNetwork"
       /\ legacySend.calls = <<>>

\* C3: on a network-class mismatch submit fails with WrongNetwork to its caller
\* and performs no wallet call, in both services.
C3_SubmitRefusesOnMismatch ==
  C3_ServiceRefuses /\ C3_LegacyRefuses

\* C4 as stated: a login that leaves Verifying with a response other than
\* valid = true rejects with SignatureInvalid, and isAuthenticated is false at
\* that moment, in every interleaving.
C4_RejectionFindsFlagFalse ==
  [][\A l \in Logins :
       (/\ login[l].pc = "Verifying"
        /\ login'[l].pc \in Terminal
        /\ login'[l].res \in {"false", "absent"})
         => /\ login'[l].pc = "Failed"
            /\ login'[l].out = "SignatureInvalid"
            /\ ~isAuthenticated']_vars

\* C4 amended: such a login rejects with SignatureInvalid without writing
\* isAuthenticated, and isAuthenticated is false at that moment unless another
\* login invocation completed successfully while this one was in flight.
C4_RejectionLeavesFlag ==
  [][\A l \in Logins :
       (/\ login[l].pc = "Verifying"
        /\ login'[l].pc \in Terminal
        /\ login'[l].res \in {"false", "absent"})
         => /\ login'[l].pc = "Failed"
            /\ login'[l].out = "SignatureInvalid"
            /\ isAuthenticated' = isAuthenticated
            /\ ~login[l].raced => ~isAuthenticated']_vars

\* C4 witness: a login was rejected for an absent valid field while another
\* invocation is in flight, and the flag is false.
C4_Witness ==
  \E l, k \in Logins :
    /\ login[l].pc = "Failed"
    /\ login[l].out = "SignatureInvalid"
    /\ login[l].res = "absent"
    /\ login[k].pc \in InFlight
    /\ ~isAuthenticated

\* the account C5 expects for a reported account list
C5_Expected(accounts) ==
  IF accounts = <<>> THEN Undefined ELSE Head(accounts)

\* C5: after onAccountsChanged(newAccounts), from the event or from the initial
\* listAccounts, account is none for the empty list and newAccounts[0]
\* otherwise, and isConnected is true exactly when the list was not empty.
C5_AccountFollowsEvent ==
  [][/\ wAccounts' # wAccounts =>
          /\ account' = C5_Expected(wAccounts')
          /\ isConnected' <=> (wAccounts' # <<>>)
     /\ (listReq[1] = "got" /\ listReq' = <<"done">>) =>
          /\ account' = C5_Expected(listReq[2])
          /\ isConnected' <=> (listReq[2] # <<>>)]_vars

\* C5 witness: an event reporting two accounts was handled after the initial
\* list; the first one is the account.
C5_Witness ==
  /\ wAccounts = <<"b", "a">>
  /\ listReq = <<"done">>
  /\ account = "b"
  /\ isConnected

\* C6: no subscriber of the account stream sees a new account together with an
\* isAuthenticated that is still true.
C6_NoTornAccountUpdate ==
  ~(accountSeen.changed /\ accountSeen.isAuthenticated)

\* C7: while a login is in flight, up to and including its wait in Verifying,
\* and no other login has completed since it entered (so for every
\* non-overlapped attempt), isAuthenticated is false.
C7_FlagFalseDuringLogin ==
  \A l \in Logins :
    (login[l].pc \in InFlight /\ ~login[l].raced) => ~isAuthenticated

\* C7 witness: an attempt is in Verifying after an earlier login had succeeded
\* and no account change has intervened.
C7_Witness ==
  \E l, k \in Logins :
    /\ login[l].pc = "Verifying"
    /\ ~login[l].raced
    /\ login[k].pc = "Authenticated"
    /\ provenSince
    /\ ~isAuthenticated

\* C8: logout is possible in every state; it clears isAuthenticated in its own
\* step, leaves Account and Network alone, issues no call and leaves no
\* operation pending that was not pending before.
C8_LogoutFrame ==
  /\ [](ENABLED logout)
  /\ [][logout =>
          /\ ~isAuthenticated'
          /\ account' = account
          /\ network' = network
          /\ CallsIssued' = CallsIssued
          /\ PendingOps' = PendingOps]_vars

\* C8 witness: logout after a successful login: the login stands resolved, the
\* flag is false, the account is kept and nothing is pending.
C8_Witness ==
  /\ login[1].pc = "Authenticated"
  /\ provenSince
  /\ ~isAuthenticated
  /\ account = login[1].out
  /\ account # Undefined
  /\ PendingOps.logins = {}
  /\ PendingOps.submits = {}
  /\ NetPending = 0
  /\ listReq = <<"done">>

\* C9: a step of chainChanged handling (the event, the wallet's answer, the
\* delivery of the re-queried network) leaves Account and isAuthenticated
\* unchanged, and Network changes only on such a delivery.
C9_ChainChangeFrame ==
  [][/\ (wChain' # wChain \/ netReq' # netReq) =>
          /\ account' = account
          /\ isAuthenticated' = isAuthenticated
          /\ login' = login
     /\ network' # network => netReq' # netReq]_vars

\* C9 witness: the session is authenticated and holds the network re-queried
\* after a change from the test chain to the production chain (the answer to
\* the constructor's query, given on the test chain, is still undelivered).
C9_Witness ==
  /\ isAuthenticated
  /\ listReq = <<"done">>
  /\ wChain = MainnetChainId
  /\ network = <<MainnetChainId>>
  /\ netReq.asked = 0
  /\ netReq.got[TestnetChainId] = 1

\* C10 as stated: a generateNonce response without a nonce makes the login fail
\* with NonceMissing, with no signMessage and no verifyMessage call, and
\* isAuthenticated false.
C10_NonceMissingFlagFalse ==
  [][\A l \in Logins :
       (/\ login[l].pc = "AwaitNonce"
        /\ login'[l].pc # "AwaitNonce"
        /\ login'[l].nonce = 0
        /\ login'[l].out # "BackendError")
         => /\ login'[l].pc = "Failed"
            /\ login'[l].out = "NonceMissing"
            /\ ~Called(login'[l].calls, "signMessage")
            /\ ~Called(login'[l].calls, "verifyMessage")
            /\ ~isAuthenticated']_vars

\* C10 amended: the same, where the failing invocation does not write
\* isAuthenticated, which is false unless another login invocation completed
\* successfully while this one was in flight.
C10_NonceMissingLeavesFlag ==
  [][\A l \in Logins :
       (/\ login[l].pc = "AwaitNonce"
        /\ login'[l].pc # "AwaitNonce"
        /\ login'[l].nonce = 0
        /\ login'[l].out # "BackendError")
         => /\ login'[l].pc = "Failed"
            /\ login'[l].out = "NonceMissing"
            /\ ~Called(login'[l].calls, "signMessage")
            /\ ~Called(login'[l].calls, "verifyMessage")
            /\ isAuthenticated' = isAuthenticated
            /\ ~login[l].raced => ~isAuthenticated']_vars

\* C10 witness: a login failed with NonceMissing after exactly the account
\* request and the nonce request.
C10_Witness ==
  \E l \in Logins :
    /\ login[l].pc = "Failed"
    /\ login[l].out = "NonceMissing"
    /\ login[l].calls = <<"requestAccounts", "generateNonce">>
    /\ ~isAuthenticated

\* how often `name` occurs in the sequence of calls
Count(calls, name) == Cardinality({i \in 1..Len(calls) : calls[i] = name})

\* the failures a wallet or backend call can end in
C11_CallFailures ==
  {"UserRejected", "BackendError", "SigningRejected", "AddressUnavailable",
   "InsufficientFunds"}

\* C11 for requestLogin and requestSendTransaction: no call is repeated, and an
\* invocation that ended on a failed call stands rejected with that failure
C11_ServicePropagates ==
  /\ \A l \in Logins :
       /\ \A n \in {"generateNonce", "signMessage", "verifyMessage"} :
            Count(login[l].calls, n) <= 1
       /\ login[l].out \in C11_CallFailures => login[l].pc = "Failed"
  /\ \A s \in Submits :
       /\ Count(submit[s].calls, "sendTransaction") <= 1
       /\ submit[s].out \in C11_CallFailures => submit[s].pc = "Failed"

\* C11 for signMessage and sendTransaction of the older service: a failure of
\* the wallet call must not end in a normal return
C11_LegacyPropagates ==
  /\ Count(legacySend.calls, "sendTransaction") <= 1
  /\ Count(legacySign.calls, "signMessage") <= 1
  /\ legacySend.caught \in C11_CallFailures =>
       legacySend.pc = "Failed" /\ legacySend.out # Undefined
  /\ legacySign.caught \in C11_CallFailures =>
       legacySign.pc = "Failed" /\ legacySign.out # Undefined

\* C11: a failure of a wallet or backend call made during login or submit is
\* neither swallowed nor retried: the operation ends by failing to its caller,
\* never by a normal empty result, and each invocation makes at most one
\* generateNonce, signMessage, verifyMessage and sendTransaction call.
C11_CallFailuresPropagate ==
  C11_ServicePropagates /\ C11_LegacyPropagates

\* base units converted back to display units: the digits above the last 18
\* and the last 18 without their trailing zeros
C12_ToDisplay(wei) ==
  LET p == Zeros(Decimals) \o wei
  IN  [whole |-> Norm(SubSeq(p, 1, Len(p) - Decimals)),
       frac |-> TrimTrailing(SubSeq(p, Len(p) - Decimals + 1, Len(p)))]

\* the value v handed to the wallet is an integer, that integer is the amount
\* times 10^18 (compared after scaling both by the fraction's 10^f), and it
\* converts back to the amount
C12_Exact(v, amount) ==
  /\ v.kind = "hex"
  /\ Norm(HexValue(v.digits) \o Zeros(Len(amount.frac)))
       = Norm(amount.whole \o amount.frac \o Zeros(Decimals))
  /\ C12_ToDisplay(HexValue(v.digits)).whole = Norm(amount.whole)
  /\ C12_ToDisplay(HexValue(v.digits)).frac = TrimTrailing(amount.frac)

\* C12 for requestSendTransaction
C12_ServiceExact ==
  (conv.value # NoValue /\ Len(conv.amount.frac) <= Decimals)
    => C12_Exact(conv.value, conv.amount)

\* C12 for sendTransaction of the older service
C12_LegacyExact ==
  (conv.legacyValue # NoValue /\ Len(conv.amount.frac) <= Decimals)
    => C12_Exact(conv.legacyValue, conv.amount)

\* C12: for every decimal amount with at most 18 fractional digits the
\* base-unit integer passed to the wallet is the amount times 10^18 exactly,
\* and converting it back to display units yields the original value.
C12_ConversionExact ==
  C12_ServiceExact /\ C12_LegacyExact

\* C13: each of the accountsChanged and chainChanged listeners is registered
\* exactly once, from the end of the constructor's turn on, so before any
\* wallet event and before the answer to the initial account-list or network
\* query is processed; no account or chain change after construction is
\* missed: the first is handled by onAccountsChanged, the second starts a
\* network query.
C13_ListenersRegisteredOnce ==
  /\ [](installed => listeners = [accountsChanged |-> 1, chainChanged |-> 1])
  /\ [][/\ wAccounts' # wAccounts =>
             account' = NextAccount(wAccounts') /\ ~isAuthenticated'
        /\ wChain' # wChain => netReq'.asked = netReq.asked + 1]_vars

\* C13 witness: an account change and a chain change were handled while the
\* answer to the constructor's listAccounts() had not been processed.
C13_Witness ==
  /\ listReq[1] \in {"asked", "got"}
  /\ listeners = [accountsChanged |-> 1, chainChanged |-> 1]
  /\ wAccounts = <<"b", "a">>
  /\ account = "b"
  /\ NetPending = 2
  /\ network = <<>>

\* C14: whenever isAuthenticated is true, the current Account is the address
\* whose signature the backend verified in the handshake that set the flag;
\* an accountsChanged event that arrives while a login is suspended never
\* leaves the new, unproven account authenticated once that login completes.
C14_AuthenticatedAccountIsProven ==
  isAuthenticated =>
    \E l \in Logins :
      /\ login[l].pc = "Authenticated"
      /\ login[l].res = "true"
      /\ login[l].address = account

\* C15: at the step in which a submit issues the wallet's sendTransaction call,
\* the chain the wallet is on matches the caller's intent: never the
\* production chain without production intent, never another chain with it.
C15_SendMatchesIntent ==
  [][\A s \in Submits :
       (submit[s].pc = "Requesting" /\ submit'[s].pc = "Sending")
         => IF submit[s].isProd THEN wChain = MainnetChainId
                                ELSE wChain # MainnetChainId]_vars

\* C16: after a logout isAuthenticated stays false until a login invoked after
\* that logout completes successfully: the login that sets the flag was not in
\* flight at a logout.
C16_LogoutOutlastsPendingLogin ==
  [][\A l \in Logins :
       (login[l].pc = "Verifying" /\ login'[l].pc = "Authenticated" /\ isAuthenticated')
         => l \notin loggedOutOver]_vars

\* the steps of a login in their order
C17_Order ==
  <<"requestAccounts", "generateNonce", "signMessage", "getAddress", "verifyMessage">>

C17_Rank(name) == CHOOSE i \in 1..Len(C17_Order) : C17_Order[i] = name

\* C17: each login invocation makes its calls in the fixed order, each at most
\* once; the nonce it obtains is presented in exactly one signature request,
\* made in the turn that receives it; verifyMessage is called with the nonce
\* issued to this invocation, the signature made over it and the signer's
\* address, never with those of another invocation.
C17_OneNonceOneSignatureOneVerify ==
  /\ [](\A l \in Logins : \A i, j \in 1..Len(login[l].calls) :
          i < j => C17_Rank(login[l].calls[i]) < C17_Rank(login[l].calls[j]))
  /\ [][\A l \in Logins :
          /\ (login[l].pc = "AwaitNonce" /\ login'[l].nonce # 0)
               => Count(login'[l].calls, "signMessage") = 1
          /\ (login[l].pc = "Addressing" /\ login'[l].pc = "Verifying")
               => /\ login'[l].nonce = l
                  /\ login'[l].sigOver = l
                  /\ login'[l].address # Undefined]_vars

\* C18: once every pending wallet response (the initial account list, the
\* initial network query, every re-query started by chainChanged) has been
\* delivered, Account is the wallet's first authorized account (or none) and
\* Network is the wallet's chain: no response computed before a later change
\* and delivered after it leaves the older value behind.
C18_QuiescentSessionMatchesWallet ==
  (installed /\ listReq = <<"done">> /\ NetPending = 0)
    => /\ account = (IF wAccounts = <<>> THEN Undefined ELSE wAccounts[1])
       /\ network = <<wChain>>

\* the steps of requestLogin in the order of its awaits, the outcomes last
C19_Step(pc) ==
  CASE pc = "Idle" -> 0
    [] pc = "Requesting" -> 1
    [] pc = "AwaitNonce" -> 2
    [] pc = "Signing" -> 3
    [] pc = "Addressing" -> 4
    [] pc = "Verifying" -> 5
    [] pc \in Terminal -> 6

\* the reasons a login can fail with
C19_Reasons ==
  {"UserRejected", "NonceMissing", "BackendError", "SigningRejected",
   "AddressUnavailable", "SignatureInvalid"}

\* C19: when every wallet and backend call eventually returns, every login
\* invocation in flight eventually reaches a terminal outcome, Authenticated or
\* Failed(reason); on its way it only moves to a later step (an earlier step is
\* entered only by a new invocation from Idle or from an outcome), and an
\* outcome is reached only from a step in flight: Authenticated from Verifying
\* on a valid response, Failed with a reason.
C19_LoginTerminates ==
  /\ \A l \in Logins : (login[l].pc \in InFlight) ~> (login[l].pc \in Terminal)
  /\ [][\A l \in Logins :
          /\ login[l].pc \in InFlight
               => C19_Step(login'[l].pc) >= C19_Step(login[l].pc)
          /\ login[l].pc \in Terminal
               => login'[l].pc \in {login[l].pc, "Requesting"}
          /\ (login'[l].pc = "Authenticated" /\ login[l].pc # "Authenticated")
               => login[l].pc = "Verifying" /\ login'[l].res = "true"
          /\ (login'[l].pc = "Failed" /\ login[l].pc # "Failed")
               => login[l].pc \in InFlight /\ login'[l].out \in C19_Reasons]_vars

\* a second invocation has authenticated after the first one failed at the
\* signature
C19_Witness ==
  /\ login[1].pc = "Failed" /\ login[1].out = "SigningRejected"
  /\ login[2].pc = "Authenticated"

====
